---- MODULE Spec2Model ----
(***************************************************************************)
(* Model of dev/init_db.py: a bootstrap script that connects to the        *)
(* PostgreSQL maintenance database, looks the target database up in the    *)
(* catalog and creates it when the lookup returns no row.                  *)
(*                                                                         *)
(* The server is the shared state (its set of databases); every invocation *)
(* of the script is a process whose steps are the script's statements      *)
(* that make a round trip to the server.  Failures of the driver and of    *)
(* the server are choices of the environment.                              *)
(***************************************************************************)
EXTENDS Integers, Sequences, FiniteSets, TLC

\* Number of invocations of the script (sequential or overlapping).
NProc == 2

Procs == 1..NProc

\* Databases other than the maintenance and target ones that the server may hold.
OtherDBs == {"app"}

MAINT_DB == "postgres"

TARGET_DB_mixed == "Idem_Test"
TARGET_DB == "idem_test"

\* An unquoted SQL identifier is folded to lower case by the server.
FoldIdentifier(name) == IF name = "Idem_Test" THEN "idem_test" ELSE name

----------------------------------------------------------------------------
\* Exception classes (Python builtins and psycopg2.errors) and their bases.
Parent(c) ==
    CASE c = "ModuleNotFoundError"   -> "ImportError"
      [] c = "ImportError"           -> "Exception"
      [] c = "InsufficientPrivilege" -> "ProgrammingError"
      [] c = "DuplicateDatabase"     -> "ProgrammingError"
      [] c = "ProgrammingError"      -> "DatabaseError"
      [] c = "OperationalError"      -> "DatabaseError"
      [] c = "DatabaseError"         -> "Error"
      [] c = "Error"                 -> "Exception"
      [] c = "Exception"             -> "BaseException"
      [] c = "SystemExit"            -> "BaseException"
      [] OTHER                       -> "BaseException"

RECURSIVE IsSubclass(_, _)
IsSubclass(c, h) ==
    IF c = h THEN TRUE
    ELSE IF c = "BaseException" THEN FALSE
    ELSE IsSubclass(Parent(c), h)

\* The interpreter's treatment of what leaves the module's top level:
\* SystemExit ends the process with its code and no traceback; any other
\* exception prints a traceback and ends the process with status 1.
Uncaught(printed, e, code) ==
    IF e = "none" THEN [printed |-> printed, exc |-> "none", status |-> 0]
    ELSE IF e = "SystemExit" THEN [printed |-> printed, exc |-> e, status |-> code]
    ELSE [printed |-> printed \o <<"traceback">>, exc |-> e, status |-> 1]

\* except Exception as e: print, print, sys.exit(1)
ConnectTry_exit0(e) ==
    IF IsSubclass(e, "Exception")
    THEN [printed |-> <<"error_connecting", "tip_docker">>, exc |-> "SystemExit", code |-> 0]
    ELSE [printed |-> <<>>, exc |-> e, code |-> 1]
ConnectTry(e) ==
    IF IsSubclass(e, "Exception")
    THEN [printed |-> <<"error_connecting", "tip_docker">>, exc |-> "SystemExit", code |-> 1]
    ELSE [printed |-> <<>>, exc |-> e, code |-> 1]

\* try: init_db()  except ImportError: print, print
MainGuard_exceptException(printed, e, code) ==
    IF e # "none" /\ IsSubclass(e, "Exception")
    THEN [printed |-> printed \o <<"module_not_found", "install_hint">>,
          exc |-> "none", status |-> 0]
    ELSE Uncaught(printed, e, code)
MainGuard(printed, e, code) ==
    IF e # "none" /\ IsSubclass(e, "ImportError")
    THEN [printed |-> printed \o <<"module_not_found", "install_hint">>,
          exc |-> "none", status |-> 0]
    ELSE Uncaught(printed, e, code)

\* SELECT 1 FROM pg_catalog.pg_database WHERE datname = '<name>'; fetchone()
CatalogLookup(name, d) == IF name \in d THEN "row" ELSE "None"

\* if not exists:
ShouldCreate_inverted(row) == row # "None"
ShouldCreate_always(row) == TRUE
ShouldCreate(row) == row = "None"

----------------------------------------------------------------------------
VARIABLES
    dbs,        \* the server's set of databases
    nCreated,   \* number of CREATE DATABASE statements the server carried out
    pc,         \* each invocation's position in the script
    conn,       \* each invocation's connection: "none", "open", "closed"
    cur,        \* each invocation's cursor: "none", "open", "closed"
    exists,     \* each invocation's fetchone() result: "unset", "row", "None"
    out,        \* what each invocation printed
    exitStatus, \* each invocation's process exit status (-1 while running)
    raised,     \* the exception the driver or the server raised in the invocation
    exc,        \* the exception that ended the invocation's process ("none" if none)
    nConnect,   \* psycopg2.connect calls made by the invocation
    nQuery,     \* existence queries issued by the invocation
    nCreate,    \* CREATE DATABASE statements issued by the invocation
    dbs0,       \* history: the server's databases before any invocation
    wrote,      \* history: the databases each invocation added to the server
    pred,       \* history: the invocations that had ended when this one started
    dbsAtStart, \* history: the server's databases when the invocation started
    dbsAtCheck, \* history: the server's databases at the invocation's existence query
    dbsAtEnd    \* history: the server's databases when the invocation ended

srv  == <<dbs, nCreated>>
hist == <<dbs0, wrote, pred, dbsAtStart, dbsAtCheck, dbsAtEnd>>
cnt  == <<nConnect, nQuery, nCreate>>
vars == <<dbs, nCreated, pc, conn, cur, exists, out, exitStatus, raised, exc,
          nConnect, nQuery, nCreate, dbs0, wrote, pred, dbsAtStart, dbsAtCheck, dbsAtEnd>>

Init ==
    /\ dbs \in {{MAINT_DB} \cup S : S \in SUBSET (OtherDBs \cup {TARGET_DB})}
    /\ nCreated = 0
    /\ pc = [p \in Procs |-> "idle"]
    /\ conn = [p \in Procs |-> "none"]
    /\ cur = [p \in Procs |-> "none"]
    /\ exists = [p \in Procs |-> "unset"]
    /\ out = [p \in Procs |-> <<>>]
    /\ exitStatus = [p \in Procs |-> -1]
    /\ raised = [p \in Procs |-> "none"]
    /\ exc = [p \in Procs |-> "none"]
    /\ nConnect = [p \in Procs |-> 0]
    /\ nQuery = [p \in Procs |-> 0]
    /\ nCreate = [p \in Procs |-> 0]
    /\ dbs0 = dbs
    /\ wrote = [p \in Procs |-> {}]
    /\ pred = [p \in Procs |-> {}]
    /\ dbsAtStart = [p \in Procs |-> {}]
    /\ dbsAtCheck = [p \in Procs |-> {}]
    /\ dbsAtEnd = [p \in Procs |-> {}]

\* The process of invocation p ends: r is what the interpreter made of it.
Exit(p, e, r) ==
    /\ pc' = [pc EXCEPT ![p] = "terminated"]
    /\ out' = [out EXCEPT ![p] = out[p] \o r.printed]
    /\ exc' = [exc EXCEPT ![p] = r.exc]
    /\ raised' = [raised EXCEPT ![p] = e]
    /\ exitStatus' = [exitStatus EXCEPT ![p] = r.status]
    /\ dbsAtEnd' = [dbsAtEnd EXCEPT ![p] = dbs']

\* An exception e raised inside the try-block of init_db.
FailInConnectTry(p, printed, e) ==
    LET h == ConnectTry(e)
    IN  Exit(p, e, MainGuard(printed \o h.printed, h.exc, h.code))

\* An exception e raised in init_db outside its try-block.
FailInInitDb(p, printed, e) == Exit(p, e, MainGuard(printed, e, 1))

\* import psycopg2 ... ; the module's top level up to the call of init_db
ImportModule(p) ==
    /\ pc[p] = "idle"
    /\ pred' = [pred EXCEPT ![p] = {q \in Procs : pc[q] = "terminated"}]
    /\ dbsAtStart' = [dbsAtStart EXCEPT ![p] = dbs]
    /\ UNCHANGED <<srv, cnt, conn, cur, exists, dbs0, wrote, dbsAtCheck>>
    /\ \E driverAvailable \in BOOLEAN :
         IF driverAvailable
         THEN /\ pc' = [pc EXCEPT ![p] = "init_db"]
              /\ UNCHANGED <<out, exc, raised, exitStatus, dbsAtEnd>>
         ELSE Exit(p, "ModuleNotFoundError", Uncaught(<<>>, "ModuleNotFoundError", 1))

\* print("Connecting..."); conn = psycopg2.connect(...)
Connect_retry(p) ==
    /\ pc[p] = "init_db"
    /\ nConnect[p] < 3
    /\ nConnect' = [nConnect EXCEPT ![p] = @ + 1]
    /\ UNCHANGED <<srv, nQuery, nCreate, cur, exists, dbs0, wrote, pred, dbsAtStart, dbsAtCheck>>
    /\ \E fault \in {"none", "OperationalError"} :
         IF fault = "none"
         THEN /\ conn' = [conn EXCEPT ![p] = "open"]
              /\ pc' = [pc EXCEPT ![p] = "set_isolation_level"]
              /\ out' = [out EXCEPT ![p] = Append(@, "connecting")]
              /\ UNCHANGED <<exc, raised, exitStatus, dbsAtEnd>>
         ELSE UNCHANGED <<conn, pc, out, exc, raised, exitStatus, dbsAtEnd>>
Connect(p) ==
    /\ pc[p] = "init_db"
    /\ nConnect' = [nConnect EXCEPT ![p] = @ + 1]
    /\ UNCHANGED <<srv, nQuery, nCreate, cur, exists, dbs0, wrote, pred, dbsAtStart, dbsAtCheck>>
    /\ \E fault \in {"none", "OperationalError"} :
         IF fault = "none"
         THEN /\ conn' = [conn EXCEPT ![p] = "open"]
              /\ pc' = [pc EXCEPT ![p] = "set_isolation_level"]
              /\ out' = [out EXCEPT ![p] = Append(@, "connecting")]
              /\ UNCHANGED <<exc, raised, exitStatus, dbsAtEnd>>
         ELSE /\ UNCHANGED conn
              /\ FailInConnectTry(p, <<"connecting">>, fault)

\* conn.set_isolation_level(ISOLATION_LEVEL_AUTOCOMMIT)
SetIsolationLevel(p) ==
    /\ pc[p] = "set_isolation_level"
    /\ UNCHANGED <<srv, cnt, conn, cur, exists, dbs0, wrote, pred, dbsAtStart, dbsAtCheck>>
    /\ \E fault \in {"none", "OperationalError"} :
         IF fault = "none"
         THEN /\ pc' = [pc EXCEPT ![p] = "cursor"]
              /\ UNCHANGED <<out, exc, raised, exitStatus, dbsAtEnd>>
         ELSE FailInConnectTry(p, <<>>, fault)

\* cur = conn.cursor()
Cursor(p) ==
    /\ pc[p] = "cursor"
    /\ UNCHANGED <<srv, cnt, conn, exists, dbs0, wrote, pred, dbsAtStart, dbsAtCheck>>
    /\ \E fault \in {"none", "OperationalError"} :
         IF fault = "none"
         THEN /\ cur' = [cur EXCEPT ![p] = "open"]
              /\ pc' = [pc EXCEPT ![p] = "query"]
              /\ UNCHANGED <<out, exc, raised, exitStatus, dbsAtEnd>>
         ELSE /\ UNCHANGED cur
              /\ FailInConnectTry(p, <<>>, fault)

\* cur.execute("SELECT 1 FROM pg_catalog.pg_database WHERE datname = ..."); exists = cur.fetchone()
QueryExists(p) ==
    /\ pc[p] = "query"
    /\ nQuery' = [nQuery EXCEPT ![p] = @ + 1]
    /\ dbsAtCheck' = [dbsAtCheck EXCEPT ![p] = dbs]
    /\ UNCHANGED <<srv, nConnect, nCreate, conn, cur, dbs0, wrote, pred, dbsAtStart>>
    /\ \E fault \in {"none", "OperationalError", "InsufficientPrivilege"} :
         IF fault = "none"
         THEN /\ exists' = [exists EXCEPT ![p] = CatalogLookup(TARGET_DB, dbs)]
              /\ pc' = [pc EXCEPT ![p] = "branch"]
              /\ UNCHANGED <<out, exc, raised, exitStatus, dbsAtEnd>>
         ELSE /\ UNCHANGED exists
              /\ FailInInitDb(p, <<>>, fault)

\* if not exists: print; cur.execute("CREATE DATABASE ..."); print
CreateDatabase_swallow(p) ==
    /\ pc[p] = "branch"
    /\ ShouldCreate(exists[p])
    /\ nCreate' = [nCreate EXCEPT ![p] = @ + 1]
    /\ UNCHANGED <<nConnect, nQuery, conn, cur, exists, dbs0, pred, dbsAtStart, dbsAtCheck>>
    /\ \E fault \in {"none", "OperationalError", "InsufficientPrivilege"} :
         LET e == IF fault # "none" THEN fault
                  ELSE IF FoldIdentifier(TARGET_DB) \in dbs THEN "DuplicateDatabase"
                  ELSE "none"
         IN  /\ pc' = [pc EXCEPT ![p] = "close"]
             /\ UNCHANGED <<exc, raised, exitStatus, dbsAtEnd>>
             /\ IF e = "none"
                THEN /\ dbs' = dbs \cup {FoldIdentifier(TARGET_DB)}
                     /\ nCreated' = nCreated + 1
                     /\ wrote' = [wrote EXCEPT ![p] = @ \cup {FoldIdentifier(TARGET_DB)}]
                     /\ out' = [out EXCEPT ![p] = @ \o <<"does_not_exist_creating", "created_successfully">>]
                ELSE /\ UNCHANGED <<srv, wrote>>
                     /\ out' = [out EXCEPT ![p] = @ \o <<"does_not_exist_creating">>]
CreateDatabase_noReject(p) ==
    /\ pc[p] = "branch"
    /\ ShouldCreate(exists[p])
    /\ nCreate' = [nCreate EXCEPT ![p] = @ + 1]
    /\ UNCHANGED <<nConnect, nQuery, conn, cur, exists, dbs0, pred, dbsAtStart, dbsAtCheck>>
    /\ \E fault \in {"none", "OperationalError", "InsufficientPrivilege"} :
         IF fault = "none"
         THEN /\ dbs' = dbs \cup {FoldIdentifier(TARGET_DB)}
              /\ nCreated' = nCreated + 1
              /\ wrote' = [wrote EXCEPT ![p] = @ \cup {FoldIdentifier(TARGET_DB)}]
              /\ pc' = [pc EXCEPT ![p] = "close"]
              /\ out' = [out EXCEPT ![p] = @ \o <<"does_not_exist_creating", "created_successfully">>]
              /\ UNCHANGED <<exc, raised, exitStatus, dbsAtEnd>>
         ELSE /\ UNCHANGED <<srv, wrote>>
              /\ FailInInitDb(p, <<"does_not_exist_creating">>, fault)
CreateDatabase(p) ==
    /\ pc[p] = "branch"
    /\ ShouldCreate(exists[p])
    /\ nCreate' = [nCreate EXCEPT ![p] = @ + 1]
    /\ UNCHANGED <<nConnect, nQuery, conn, cur, exists, dbs0, pred, dbsAtStart, dbsAtCheck>>
    /\ \E fault \in {"none", "OperationalError", "InsufficientPrivilege"} :
         LET e == IF fault # "none" THEN fault
                  ELSE IF FoldIdentifier(TARGET_DB) \in dbs THEN "DuplicateDatabase"
                  ELSE "none"
         IN  IF e = "none"
             THEN /\ dbs' = dbs \cup {FoldIdentifier(TARGET_DB)}
                  /\ nCreated' = nCreated + 1
                  /\ wrote' = [wrote EXCEPT ![p] = @ \cup {FoldIdentifier(TARGET_DB)}]
                  /\ pc' = [pc EXCEPT ![p] = "close"]
                  /\ out' = [out EXCEPT ![p] = @ \o <<"does_not_exist_creating", "created_successfully">>]
                  /\ UNCHANGED <<exc, raised, exitStatus, dbsAtEnd>>
             ELSE /\ UNCHANGED <<srv, wrote>>
                  /\ FailInInitDb(p, <<"does_not_exist_creating">>, e)

\* else: print("... already exists.")
AlreadyExists(p) ==
    /\ pc[p] = "branch"
    /\ ~ShouldCreate(exists[p])
    /\ pc' = [pc EXCEPT ![p] = "close"]
    /\ out' = [out EXCEPT ![p] = Append(@, "already_exists")]
    /\ UNCHANGED <<srv, cnt, conn, cur, exists, exc, raised, exitStatus, hist>>

\* cur.close(); conn.close(); print("Done."); return to the main guard
CloseAndReturn(p) ==
    /\ pc[p] = "close"
    /\ cur' = [cur EXCEPT ![p] = "closed"]
    /\ conn' = [conn EXCEPT ![p] = "closed"]
    /\ UNCHANGED <<srv, cnt, exists, dbs0, wrote, pred, dbsAtStart, dbsAtCheck>>
    /\ Exit(p, "none", MainGuard(<<"done">>, "none", 0))

Next ==
    \E p \in Procs :
        \/ ImportModule(p)
        \/ Connect(p)
        \/ SetIsolationLevel(p)
        \/ Cursor(p)
        \/ QueryExists(p)
        \/ CreateDatabase(p)
        \/ AlreadyExists(p)
        \/ CloseAndReturn(p)

Spec == Init /\ [][Next]_vars

----------------------------------------------------------------------------
\* Vocabulary of the properties.

Printed(p, m) == \E i \in 1..Len(out[p]) : out[p][i] = m

Terminated(p) == pc[p] = "terminated"

\* init_db returned to its caller and the process ended without an exception.
ReturnedNormally(p) == Terminated(p) /\ Printed(p, "done") /\ exc[p] = "none"

\* psycopg2.connect itself raised.
ConnectFailed(p) == Terminated(p) /\ nConnect[p] >= 1 /\ conn[p] = "none"

\* The existence query or the CREATE DATABASE statement raised.
StatementFailed(p) == Terminated(p) /\ nQuery[p] >= 1 /\ raised[p] # "none"

\* The process ended with an exception nothing caught (not sys.exit).
UnhandledError(p) ==
    /\ Terminated(p)
    /\ exc[p] \notin {"none", "SystemExit"}
    /\ Printed(p, "traceback")

\* No failure of the driver's or the server's making hit the invocation.
NoFault(p) == raised[p] \in {"none", "DuplicateDatabase"}

OnlyRunning(S) == \A r \in Procs \ S : pc[r] = "idle"

\* No other invocation overlapped with p's run.
RanAlone(p) ==
    \A q \in Procs \ {p} : pc[q] = "idle" \/ q \in pred[p] \/ p \in pred[q]

----------------------------------------------------------------------------
\* C1: whenever a run of init_db returns normally, a database named TARGET_DB
\* exists on the server at the moment of return (and still exists afterwards).
C1_TargetExistsOnReturn ==
    \A p \in Procs :
        ReturnedNormally(p) => (TARGET_DB \in dbsAtEnd[p] /\ TARGET_DB \in dbs)

\* A run that started with the target absent has returned normally.
C1_Witness ==
    \E p \in Procs :
        ReturnedNormally(p) /\ TARGET_DB \notin dbsAtStart[p] /\ nCreate[p] = 1

\* C2: two runs in succession, nothing else touching the server, target
\* initially absent, no driver or server fault: exactly one CREATE DATABASE is
\* issued in total, by the first run; the second run reports "already exists",
\* issues no creation, raises no error and leaves the set of databases as the
\* first run left it.
C2_Idempotent ==
    \A p, q \in Procs :
        ( /\ p # q
          /\ Terminated(p) /\ Terminated(q)
          /\ p \in pred[q]
          /\ OnlyRunning({p, q})
          /\ TARGET_DB \notin dbs0
          /\ NoFault(p) /\ NoFault(q) )
        => ( /\ nCreate[p] = 1 /\ nCreate[q] = 0
             /\ nCreated = 1
             /\ Printed(p, "created_successfully")
             /\ Printed(q, "already_exists")
             /\ ~Printed(q, "does_not_exist_creating")
             /\ raised[q] = "none" /\ exc[q] = "none" /\ exitStatus[q] = 0
             /\ dbsAtEnd[q] = dbsAtEnd[p]
             /\ dbs = dbsAtEnd[p] )

\* Two successive fault-free runs against a server without the target have ended.
C2_Witness ==
    \E p, q \in Procs :
        /\ p # q /\ p \in pred[q]
        /\ ReturnedNormally(p) /\ ReturnedNormally(q)
        /\ OnlyRunning({p, q})
        /\ TARGET_DB \notin dbs0

\* C3: if the target exists when a run performs its existence query, the run
\* never issues CREATE DATABASE and the set of databases is unchanged from
\* the query onwards.
C3_NoCreateWhenPresent ==
    \A p \in Procs :
        (nQuery[p] >= 1 /\ TARGET_DB \in dbsAtCheck[p])
        => ( /\ nCreate[p] = 0
             /\ wrote[p] = {}
             /\ ~Printed(p, "does_not_exist_creating")
             /\ dbs = dbsAtCheck[p] )

\* A run found the target present and went on to the end.
C3_Witness ==
    \E p \in Procs :
        /\ ReturnedNormally(p)
        /\ TARGET_DB \in dbsAtCheck[p]
        /\ Printed(p, "already_exists")

\* C4: when psycopg2.connect fails the run ends with exit status 1 after the
\* diagnostic, having issued no existence query and no CREATE DATABASE; it
\* added nothing to the server, whose databases are those of before the run
\* when no other run overlapped; connect is called once per run and never again.
C4_ConnectFailure ==
    /\ \A p \in Procs : nConnect[p] <= 1
    /\ \A p \in Procs :
        ConnectFailed(p)
        => ( /\ exitStatus[p] = 1
             /\ Printed(p, "error_connecting") /\ Printed(p, "tip_docker")
             /\ nConnect[p] = 1 /\ nQuery[p] = 0 /\ nCreate[p] = 0
             /\ wrote[p] = {}
             /\ (RanAlone(p) => dbsAtEnd[p] = dbsAtStart[p])
             /\ (OnlyRunning({p}) => dbs = dbs0) )

\* A run whose connect call failed has ended.
C4_Witness ==
    \E p \in Procs : ConnectFailed(p) /\ raised[p] = "OperationalError"

\* C5: exit status 0 after the "created" and the "already exists" outcomes,
\* exit status 1 after a connection failure.
C5_ExitStatus ==
    \A p \in Procs :
        /\ (Terminated(p) /\ Printed(p, "created_successfully")) => exitStatus[p] = 0
        /\ (Terminated(p) /\ Printed(p, "already_exists")) => exitStatus[p] = 0
        /\ ConnectFailed(p) => exitStatus[p] = 1

\* One run ended after creating or finding the database, another after a failed connect.
C5_Witness ==
    \E p, q \in Procs :
        /\ Terminated(p)
        /\ Printed(p, "created_successfully") \/ Printed(p, "already_exists")
        /\ exitStatus[p] = 0
        /\ ConnectFailed(q) /\ exitStatus[q] = 1

\* C6: when psycopg2 is unavailable the script prints the install guidance
\* and ends cleanly, the ImportError handler having caught the failure, and
\* neither connects nor creates.
C6_MissingDriverHandled ==
    \A p \in Procs :
        (Terminated(p) /\ raised[p] = "ModuleNotFoundError")
        => ( /\ Printed(p, "install_hint")
             /\ ~Printed(p, "traceback")
             /\ exc[p] = "none"
             /\ exitStatus[p] = 0
             /\ nConnect[p] = 0 /\ nCreate[p] = 0 )

\* C7: a failure of the existence query or of CREATE DATABASE is not caught:
\* the run ends with that exception unhandled, prints neither "created
\* successfully" nor "Done.", and nothing is re-issued (at most one connect,
\* one existence query and one CREATE DATABASE per run).
C7_StatementFailureUnhandled ==
    /\ \A p \in Procs : nConnect[p] <= 1 /\ nQuery[p] <= 1 /\ nCreate[p] <= 1
    /\ \A p \in Procs :
        StatementFailed(p)
        => ( /\ UnhandledError(p)
             /\ exc[p] = raised[p]
             /\ exitStatus[p] = 1
             /\ ~Printed(p, "created_successfully")
             /\ ~Printed(p, "done")
             /\ ~Printed(p, "install_hint") )

\* A run's CREATE DATABASE was rejected as a duplicate.
C7_Witness ==
    \E p \in Procs :
        StatementFailed(p) /\ raised[p] = "DuplicateDatabase" /\ nCreate[p] = 1

\* C8: no terminated run leaves a connection it opened unclosed.
C8_ConnectionClosedOnEveryPath ==
    \A p \in Procs :
        (Terminated(p) /\ conn[p] # "none") => conn[p] = "closed"

\* C9: the existence check and the creation are separate steps; of two
\* invocations that both observed "absent" and both issued CREATE DATABASE at
\* most one created the database, and the other ends with an unhandled error
\* (neither the handled connection failure nor "already exists"), which is
\* the server's duplicate rejection unless a server fault came first.
C9_CheckThenCreateRace ==
    \A p, q \in Procs :
        ( /\ p # q
          /\ exists[p] = "None" /\ exists[q] = "None"
          /\ nCreate[p] = 1 /\ nCreate[q] = 1
          /\ wrote[p] # {} )
        => ( /\ wrote[q] = {}
             /\ UnhandledError(q)
             /\ exc[q] \in {"DuplicateDatabase", "OperationalError", "InsufficientPrivilege"}
             /\ ~Printed(q, "already_exists")
             /\ ~Printed(q, "error_connecting")
             /\ ~Printed(q, "created_successfully")
             /\ exitStatus[q] = 1 )

\* Both invocations saw the target absent, one created it, the other was rejected.
C9_Witness ==
    \E p, q \in Procs :
        /\ p # q
        /\ exists[p] = "None" /\ exists[q] = "None"
        /\ wrote[p] = {TARGET_DB}
        /\ nCreate[q] = 1
        /\ exc[q] = "DuplicateDatabase"
        /\ UnhandledError(q)

\* At most one CREATE DATABASE succeeds and the target is never created twice.
AtMostOneCreation ==
    /\ nCreated <= 1
    /\ (TARGET_DB \in dbs0 => nCreated = 0)
    /\ Cardinality({p \in Procs : wrote[p] # {}}) <= 1

\* C10 as stated: at most one CREATE DATABASE succeeds, every normal return
\* has the target existing, and once all invocations that connected have
\* terminated the target exists, whatever errors ended them.
C10_Original ==
    /\ AtMostOneCreation
    /\ \A p \in Procs : ReturnedNormally(p) => TARGET_DB \in dbsAtEnd[p]
    /\ ( /\ \E p \in Procs : conn[p] # "none"
         /\ \A p \in Procs : conn[p] # "none" => Terminated(p) )
       => TARGET_DB \in dbs

\* C10 amended: at most one CREATE DATABASE succeeds, every normal return has
\* the target existing, and once all invocations that connected have
\* terminated the target exists provided one of them returned normally or
\* had its CREATE DATABASE rejected as a duplicate.
C10_Concurrent ==
    /\ AtMostOneCreation
    /\ \A p \in Procs : ReturnedNormally(p) => TARGET_DB \in dbsAtEnd[p]
    /\ ( /\ \A p \in Procs : conn[p] # "none" => Terminated(p)
         /\ \E p \in Procs :
              ReturnedNormally(p) \/ (Terminated(p) /\ raised[p] = "DuplicateDatabase") )
       => TARGET_DB \in dbs

\* All invocations ran concurrently against a server without the target and
\* ended, one of them with the duplicate rejection.
C10_Witness ==
    /\ TARGET_DB \notin dbs0
    /\ \A p \in Procs : Terminated(p) /\ pred[p] = {}
    /\ \E p \in Procs : raised[p] = "DuplicateDatabase"
    /\ nCreated = 1
====
